---- MODULE Spec2Model ----
(***************************************************************************)
(* KeepNote notebook data structure (keepnote/notebook.py).                *)
(*                                                                         *)
(* The model keeps the on-disk directory tree (one directory per node,     *)
(* each with an optional node.xml sidecar) next to the in-memory node      *)
(* objects of one NoteBook session, and translates every public operation  *)
(* of NoteBookNode / NoteBookTrash / NoteBook into one action.  Python     *)
(* exceptions are modelled by the field exc of the working state: once it  *)
(* is set, the remaining statements of the handler are skipped, and what   *)
(* was mutated before the raise stays mutated.                             *)
(***************************************************************************)
EXTENDS Integers, Sequences, FiniteSets, TLC

\* ------------------------------------------------------------------ bounds
MaxNodes == 5        \* node objects constructed in one session
MaxDirs == 5         \* directories on disk, the notebook root included
MaxIndex == 2        \* largest explicit index handed to move
MaxOps == 3          \* operations called after the first load
MaxLen == 4          \* characters of a title handed to get_valid_filename

\* --------------------------------------------------------------- constants
NOTEBOOK_FORMAT_VERSION == 2
MAXINT == 2147483647
TRASH_DIR == <<"_", "_", "T", "R", "A", "S", "H", "_", "_">>
TRASH_NAME == <<"T", "r", "a", "s", "h">>
DEFAULT_PAGE_NAME == <<"N", "e", "w", " ", "P", "a", "g", "e">>
DEFAULT_DIR_NAME == <<"N", "e", "w", " ", "F", "o", "l", "d", "e", "r">>
Titles == {<<"a">>, <<"B">>}   \* titles handed to rename
CONTENT_TYPE_PAGE == "text/xhtml+xml"
CONTENT_TYPE_TRASH == "application/x-notebook-trash"
CONTENT_TYPE_DIR == "application/x-notebook-dir"
INFO_SORT_NONE == 0
INFO_SORT_TITLE == 2
RootDir == <<"r", "o", "o", "t">>   \* rootdir handed to NoteBook(rootdir)
None == 0                            \* Python None for node references
NoIndex == -1                        \* Python None for the index argument
Now == 1                             \* value of get_timestamp()

\* ------------------------------------------------- filename creation (75-141)
REGEX_SLASHES == {"/", "\\"}
\* the backquote character is written "bq": the lexer rejects it in a string
REGEX_BAD_CHARS == {"?", "'", "&", "<", ">", "|", "bq", ":", ";"}
StripChars == {" ", "\t", "."}

Lower(c) ==
  CASE c = "A" -> "a" [] c = "B" -> "b" [] c = "T" -> "t" [] c = "R" -> "r"
    [] c = "S" -> "s" [] c = "H" -> "h" [] c = "N" -> "n" [] c = "P" -> "p"
    [] c = "F" -> "f"
    [] OTHER -> c

RECURSIVE LStrip(_)
LStrip(w) == IF w # <<>> /\ Head(w) \in StripChars THEN LStrip(Tail(w)) ELSE w

RECURSIVE RStrip(_)
RStrip(w) ==
  IF w # <<>> /\ w[Len(w)] \in StripChars
    THEN RStrip(SubSeq(w, 1, Len(w) - 1)) ELSE w

\* re.sub(REGEX_SLASHES, "-", filename) (81)
SubSlashes(w) == [i \in 1..Len(w) |-> IF w[i] \in REGEX_SLASHES THEN "-" ELSE w[i]]

\* re.sub(REGEX_BAD_CHARS, "", filename) (82)
SubBadChars(w) == SelectSeq(w, LAMBDA c : c \notin REGEX_BAD_CHARS)

\* filename.replace("\t", " ") (83)
ReplaceTabs(w) == [i \in 1..Len(w) |-> IF w[i] = "\t" THEN " " ELSE w[i]]

\* don't allow files to start with two underscores (87-88)
DropUnderscores(w) ==
  IF Len(w) >= 2 /\ w[1] = "_" /\ w[2] = "_" THEN SubSeq(w, 3, Len(w)) ELSE w

\* don't allow pure whitespace filenames (91-92)
OrDefault(w) == IF w = <<>> THEN <<"f", "o", "l", "d", "e", "r">> ELSE w

\* filename.lower() (95)
LowerAll(w) == [i \in 1..Len(w) |-> Lower(w[i])]

get_valid_filename(filename) ==
  LowerAll(OrDefault(DropUnderscores(RStrip(LStrip(
    ReplaceTabs(SubBadChars(SubSlashes(filename))))))))

Digit(i) == CASE i = 0 -> "0" [] i = 1 -> "1" [] i = 2 -> "2" [] i = 3 -> "3"
              [] i = 4 -> "4" [] i = 5 -> "5" [] i = 6 -> "6" [] i = 7 -> "7"
              [] i = 8 -> "8" [] OTHER -> "9"

RECURSIVE Str(_)
Str(i) == IF i < 10 THEN <<Digit(i)>> ELSE Append(Str(i \div 10), Digit(i % 10))

\* the numbered candidate filename + sep + str(i) + ext with sep " ", ext ""
Numbered(filename, i) == filename \o <<" ">> \o Str(i)

\* a faulty numbering: the suffixes start at 1
get_unique_filename_list_from_1(names, filename) ==
  IF filename \notin names THEN filename
  ELSE LET free(i) == Numbered(filename, i) \notin names
           n == CHOOSE i \in 1..(Cardinality(names) + 2) :
                  free(i) /\ \A j \in 1..(i - 1) : ~free(j)
       IN  Numbered(filename, n)

\* get_unique_filename_list: names is the set of existing names
get_unique_filename_list(names, filename) ==
  IF filename \notin names THEN filename
  ELSE LET free(i) == Numbered(filename, i) \notin names
           n == CHOOSE i \in 2..(Cardinality(names) + 2) :
                  free(i) /\ \A j \in 2..(i - 1) : ~free(j)
       IN  Numbered(filename, n)

\* -------------------------------------------------------------- filesystem
\* A path is a sequence of names, a name a sequence of characters.  fs maps
\* every existing directory to its sidecar: has says whether node.xml
\* exists, attr is the attribute map the file holds.
EmptyAttr == [k \in {} |-> 0]
NoSidecar == [has |-> FALSE, attr |-> EmptyAttr]

\* a sidecar file that is not well-formed XML: it ends after the <node> tag
CorruptSidecar == [has |-> TRUE, attr |-> [xml |-> "<node>"]]

Exists(f, p) == p \in DOMAIN f
IsPrefix(p, q) == Len(p) <= Len(q) /\ SubSeq(q, 1, Len(p)) = p
Dirname(p) == SubSeq(p, 1, Len(p) - 1)
Basename(p) == p[Len(p)]

\* os.listdir: the names of the entries of directory p
ListDir(f, p) ==
  {Basename(q) : q \in {x \in DOMAIN f : Len(x) = Len(p) + 1 /\ IsPrefix(p, x)}}

\* os.rename of a directory: the whole subtree follows
RenameDir(f, p, q) ==
  LET moved == {x \in DOMAIN f : IsPrefix(p, x)}
      new(x) == q \o SubSeq(x, Len(p) + 1, Len(x))
      back(y) == p \o SubSeq(y, Len(q) + 1, Len(y))
  IN  [y \in (DOMAIN f \ moved) \cup {new(x) : x \in moved} |->
         IF y \in DOMAIN f /\ y \notin moved THEN f[y] ELSE f[back(y)]]

\* shutil.rmtree
RmTree(f, p) == [y \in {x \in DOMAIN f : ~IsPrefix(p, x)} |-> f[y]]

\* os.mkdir
MkDir(f, p) == [y \in DOMAIN f \cup {p} |-> IF y = p THEN NoSidecar ELSE f[y]]

\* get_unique_filename(path, filename): the new path under directory path
get_unique_filename(f, path, filename) ==
  Append(path, get_unique_filename_list(ListDir(f, path), filename))

get_valid_unique_filename(f, path, filename) ==
  get_unique_filename(f, path, get_valid_filename(filename))

get_trash_dir(nodepath) == Append(nodepath, TRASH_DIR)

\* ------------------------------------------------------------------- state
VARIABLES
  fs,         \* disk: existing directory path -> sidecar
  prefFile,   \* disk: the notebook.nbk preference record
  parent,     \* node -> NoteBookNode._parent (None for the notebook)
  basename,   \* node -> NoteBookNode._basename
  loaded,     \* node -> NoteBookNode._children is not None
  children,   \* node -> NoteBookNode._children (a list of nodes)
  valid,      \* node -> NoteBookNode._valid
  attr,       \* node -> NoteBookNode._attr
  dirty,      \* NoteBook._dirty
  trash,      \* NoteBook._trash
  pref,       \* NoteBook.pref
  last,       \* the operation that ran last and how it ended
  steps       \* the number of operations called so far

vars == <<fs, prefFile, parent, basename, loaded, children, valid, attr,
          dirty, trash, pref, last, steps>>

Root == 1                    \* the NoteBook object is the first node
Nodes == 1..Len(parent)      \* the node objects constructed so far

\* The working state of a handler: the variables plus the bookkeeping of
\* the call (exception raised, value returned, sidecars written, ...).
Cur(lsrev, iofail) ==
  [fs |-> fs, prefFile |-> prefFile, parent |-> parent, basename |-> basename,
   loaded |-> loaded, children |-> children, valid |-> valid, attr |-> attr,
   dirty |-> dirty, trash |-> trash, pref |-> pref,
   exc |-> "none", failed |-> "none", ret |-> None, written |-> {},
   prefWritten |-> FALSE, notified |-> <<>>, lsrev |-> lsrev,
   iofail |-> iofail]

Raise(s, e) == IF s.exc = "none" THEN [s EXCEPT !.exc = e] ELSE s

\* a filesystem call fails (OSError, IOError); every caller wraps the error
\* in a NoteBookError
Fail(s, call) ==
  IF s.exc = "none" THEN [s EXCEPT !.exc = "NoteBookError", !.failed = call]
  ELSE s

\* sequencing: run F on s unless an exception is already propagating
Bind(s, F(_)) == IF s.exc = "none" THEN F(s) ELSE s

\* ----------------------------------------------------- NoteBookNode basics
\* clear_attr (413-425)
clear_attr(title, content_type) ==
  [title |-> title, content_type |-> content_type, order |-> MAXINT,
   created_time |-> None, modified_time |-> None,
   expanded |-> FALSE, expanded2 |-> FALSE,
   info_sort |-> INFO_SORT_NONE, info_sort_dir |-> 1]

\* dict.update
Update(a, b) ==
  [k \in DOMAIN a \cup DOMAIN b |-> IF k \in DOMAIN b THEN b[k] ELSE a[k]]

\* get_path (356-366): the basenames from the notebook down to the node
RECURSIVE get_path(_, _)
get_path(s, n) ==
  IF s.parent[n] = None THEN s.basename[n]
  ELSE Append(get_path(s, s.parent[n]), s.basename[n])

\* NoteBook._set_dirty_node (1046-1052)
_set_dirty(s, n, d) ==
  [s EXCEPT !.dirty = IF d THEN @ \cup {n} ELSE @ \ {n}]

\* set_attr (432-435)
set_attr(s, n, name, value) ==
  _set_dirty([s EXCEPT !.attr[n] = Update(@, [k \in {name} |-> value])],
             n, TRUE)

\* del_attr (438-443): KeyError when the node has no such attribute
del_attr(s, n, name) ==
  IF name \notin DOMAIN s.attr[n] THEN Raise(s, "KeyError")
  ELSE [s EXCEPT !.attr[n] = [k \in DOMAIN @ \ {name} |-> @[k]]]

\* set_attr_timestamp (451-456): None stands for "now"
set_attr_timestamp(s, n, name, timestamp) ==
  set_attr(s, n, name, IF timestamp = None THEN Now ELSE timestamp)

\* set_info_sort (459-463)
set_info_sort(s, n, info, sort_dir) ==
  _set_dirty([s EXCEPT !.attr[n] =
                Update(@, [info_sort |-> info, info_sort_dir |-> sort_dir])],
             n, TRUE)

\* NoteBookNode.__init__ (317-332) for a node with a parent
NewNode(s, par, path, title, content_type) ==
  [s EXCEPT !.parent = Append(@, par),
            !.basename = Append(@, Basename(path)),
            !.loaded = Append(@, FALSE),
            !.children = Append(@, <<>>),
            !.valid = Append(@, TRUE),
            !.attr = Append(@, clear_attr(title, content_type)),
            !.ret = Len(s.parent) + 1]

\* NoteBookTrash.__init__ (955-956) on the node object just constructed
MarkTrash(s) ==
  _set_dirty([s EXCEPT !.attr[s.ret].content_type = CONTENT_TYPE_TRASH],
             s.ret, TRUE)

\* NoteBookTrash.__init__ (953-956): the path is always the trash directory
\* of the notebook, and set_attr marks the new object dirty
NewTrash(s) ==
  MarkTrash(NewNode(s, Root, get_trash_dir(get_path(s, Root)), TRASH_NAME,
                    CONTENT_TYPE_DIR))

\* notify_change / notify_changes (713-721)
notify(s, nodes, recurse) ==
  [s EXCEPT !.notified = Append(@, [nodes |-> nodes, recurse |-> recurse])]

\* write_meta_data (780-784) with NoteBookNodeMetaData.write (811-840):
\* opening the file fails when the node's directory does not exist
write_meta_data(s, n) ==
  LET path == get_path(s, n)
  IN  IF ~Exists(s.fs, path) \/ s.iofail = "write"
        THEN Fail(s, "write")
        ELSE [s EXCEPT !.fs[path] = [has |-> TRUE, attr |-> s.attr[n]],
                       !.written = @ \cup {n}]

\* a faulty save: it writes only when forced and ignores the dirty set
save_forced_only(s, n, force) ==
  IF force /\ s.valid[n]
    THEN Bind(write_meta_data(s, n), LAMBDA t : _set_dirty(t, n, FALSE))
    ELSE s

\* NoteBookNode.save (742-747)
save(s, n, force) ==
  IF (force \/ n \in s.dirty) /\ s.valid[n]
    THEN Bind(write_meta_data(s, n), LAMBDA t : _set_dirty(t, n, FALSE))
    ELSE s

\* NoteBookNodeMetaData.read (843-879): the attributes of the sidecar, with
\* the time stamps defaulted
MetaRead(sidecar) ==
  LET a == Update([created_time |-> None, modified_time |-> None],
                  sidecar.attr)
  IN  [a EXCEPT !.created_time = IF @ = None THEN Now ELSE @,
                !.modified_time = IF @ = None THEN Now ELSE @]

\* set_meta_data (792-794) on the node object just constructed
set_meta_data(s, meta) == [s EXCEPT !.attr[s.ret] = Update(@, meta)]

\* the maker registered for the content type of the sidecar (1225-1229);
\* an unknown content type has none and the directory is ignored
make_node(s, par, path, meta) ==
  LET ct == IF "content_type" \in DOMAIN meta THEN meta.content_type
            ELSE CONTENT_TYPE_DIR
  IN  IF ct = CONTENT_TYPE_TRASH THEN set_meta_data(NewTrash(s), meta)
      ELSE IF ct \in {CONTENT_TYPE_DIR, CONTENT_TYPE_PAGE}
        THEN set_meta_data(NewNode(s, par, path, <<>>, ct), meta)
      ELSE [s EXCEPT !.ret = None]

\* NoteBookNodeFactory.read_node (1216-1239); ret is the node or None, and
\* meta.read raises NoteBookError on a sidecar that does not parse (867-871)
read_node(s, par, path) ==
  IF ~s.fs[path].has THEN [s EXCEPT !.ret = None]
  ELSE IF s.fs[path] = CorruptSidecar THEN Raise(s, "NoteBookError")
  ELSE make_node(s, par, path, MetaRead(s.fs[path]))

\* ---------------------------------------------------------- children lists
RECURSIVE SetToSeq(_)
SetToSeq(S) ==
  IF S = {} THEN <<>>
  ELSE LET x == CHOOSE y \in S : TRUE IN <<x>> \o SetToSeq(S \ {x})

Reverse(q) == [i \in 1..Len(q) |-> q[Len(q) + 1 - i]]

\* os.listdir returns the entries in arbitrary order: one of two orders
Listing(s, path) ==
  LET q == SetToSeq(ListDir(s.fs, path)) IN IF s.lsrev THEN Reverse(q) ELSE q

\* list.insert with Python's clamping of an index past the end
ListInsert(q, i, x) ==
  LET k == IF i > Len(q) THEN Len(q) ELSE i
  IN  SubSeq(q, 1, k) \o <<x>> \o SubSeq(q, k + 1, Len(q))

\* list.sort(key=order): stable
RECURSIVE SortByOrder(_, _)
SortByOrder(a, q) ==
  IF q = <<>> THEN <<>>
  ELSE LET init == SortByOrder(a, SubSeq(q, 1, Len(q) - 1))
           x == q[Len(q)]
           k == Cardinality({i \in 1..Len(init) : a[init[i]].order <= a[x].order})
       IN  ListInsert(init, k, x)

\* _set_child_order (668-673), from list position i on
RECURSIVE SetChildOrderFrom(_, _, _)
SetChildOrderFrom(s, n, i) ==
  IF i > Len(s.children[n]) THEN s
  ELSE LET child == s.children[n][i]
           s1 == IF s.attr[child].order # i - 1
                   THEN _set_dirty([s EXCEPT !.attr[child].order = i - 1],
                                   child, TRUE)
                   ELSE s
       IN  SetChildOrderFrom(s1, n, i + 1)

_set_child_order(s, n) == SetChildOrderFrom(s, n, 1)

\* if node: self._children.append(node) (655-656)
AppendRead(s, n) ==
  IF s.ret # None THEN [s EXCEPT !.children[n] = Append(@, s.ret)] ELSE s

\* a faulty handler: the error of one entry is passed on to the caller
Reraise(s) == s

\* except NoteBookError: continue (658-659)
Continue(s) ==
  IF s.exc = "NoteBookError"
    THEN [s EXCEPT !.exc = "none", !.failed = "none", !.ret = None]
    ELSE s

\* the loop of _get_children (650-659) over the listed names
RECURSIVE ReadAll(_, _, _, _)
ReadAll(s, n, path, files) ==
  IF files = <<>> THEN s
  ELSE ReadAll(AppendRead(Continue(read_node(s, n, Append(path, Head(files)))),
                          n),
               n, path, Tail(files))

\* self._children.sort(key=order) (664)
SortChildren(s, n) == [s EXCEPT !.children[n] = SortByOrder(s.attr, @)]

\* _get_children (640-665)
_get_children(s, n) ==
  LET s1 == [s EXCEPT !.loaded[n] = TRUE, !.children[n] = <<>>]
      path == get_path(s, n)
  IN  IF ~Exists(s.fs, path) \/ s.iofail = "listdir"
        THEN Fail(s1, "listdir")
        ELSE _set_child_order(
               SortChildren(ReadAll(s1, n, path, Listing(s, path)), n), n)

\* NoteBookNode.get_children (632-637)
node_get_children(s, n) == IF ~s.loaded[n] THEN _get_children(s, n) ELSE s

\* _add_child after the children list is loaded (685-700)
AddToChildren(s, n, child, index) ==
  LET kids == s.children[n]
  IN  _set_dirty(
        IF index # NoIndex
          THEN _set_child_order(
                 [s EXCEPT !.children[n] = ListInsert(@, index, child)], n)
        ELSE IF Len(kids) > 0 /\ kids[Len(kids)] = s.trash
          THEN _set_child_order(
                 [s EXCEPT !.children[n] = ListInsert(@, Len(kids) - 1, child)],
                 n)
        ELSE [s EXCEPT !.attr[child].order = Len(kids),
                       !.children[n] = Append(@, child)],
        child, TRUE)

\* _add_child (676-700)
_add_child(s, n, child, index) ==
  Bind(node_get_children(s, n), LAMBDA t : AddToChildren(t, n, child, index))

\* list.remove: the first occurrence, ValueError when absent
ListRemove(q, x) ==
  LET k == CHOOSE i \in 1..Len(q) : q[i] = x /\ \A j \in 1..(i - 1) : q[j] # x
  IN  SubSeq(q, 1, k - 1) \o SubSeq(q, k + 1, Len(q))

Range(q) == {q[i] : i \in 1..Len(q)}

\* a faulty _remove_child: the child stays in the list
_remove_child_keep(s, n, child) == node_get_children(s, n)

\* _remove_child (703-707)
_remove_child(s, n, child) ==
  Bind(node_get_children(s, n), LAMBDA t :
    IF child \notin Range(t.children[n]) THEN Raise(t, "ValueError")
    ELSE [t EXCEPT !.children[n] = ListRemove(@, child)])

\* --------------------------------------------------- lifecycle operations
IsTrashNode(s, n) == s.attr[n].content_type = CONTENT_TYPE_TRASH

\* a faulty rename step: it takes over the new basename before the rename
\* is known to have succeeded
move_rename_name_first(s, n, path, path2) ==
  IF ~Exists(s.fs, path) \/ IsPrefix(path, path2) \/ s.iofail = "rename"
    THEN Fail([s EXCEPT !.basename[n] = Basename(path2)], "rename")
    ELSE [s EXCEPT !.fs = RenameDir(@, path, path2),
                   !.basename[n] = Basename(path2)]

\* os.rename(path, path2) and _set_basename(path2) in move (491-496):
\* renaming fails when the directory is gone or path2 lies inside it
move_rename(s, n, path, path2) ==
  IF ~Exists(s.fs, path) \/ IsPrefix(path, path2) \/ s.iofail = "rename"
    THEN Fail(s, "rename")
    ELSE [s EXCEPT !.fs = RenameDir(@, path, path2),
                   !.basename[n] = Basename(path2)]

\* the on-disk part of move (486-496): rename the directory to a free name
\* under the new parent, then take over the new basename
move_on_disk(s, n, p) ==
  IF ~Exists(s.fs, get_path(s, p)) THEN Raise(s, "AssertionError")
  ELSE move_rename(s, n, get_path(s, n),
                   get_valid_unique_filename(s.fs, get_path(s, p),
                                             s.attr[n].title))

\* the index handed to _add_child by a move within the same parent (505-506);
\* in Python 2 an integer is never smaller than None
same_parent_index(s, n, index) ==
  IF index # NoIndex /\ s.attr[n].order < index THEN index - 1 ELSE index

\* NoteBookNode.move (478-515)
move(s, n, p, index) ==
  IF n = p THEN Raise(s, "AssertionError")
  ELSE IF p = None THEN Raise(s, "AttributeError")
  ELSE
    LET old_parent == s.parent[n]
        \* perform on-disk move if new parent
        s1 == IF old_parent # p THEN move_on_disk(s, n, p) ELSE s
        \* perform move in data structure
        s2 == Bind(s1, LAMBDA t : _remove_child(t, t.parent[n], n))
        s3 == Bind(s2, LAMBDA t :
                IF t.parent[n] # p
                  THEN _add_child([_set_child_order(t, t.parent[n])
                                     EXCEPT !.parent[n] = p], p, n, index)
                  ELSE _add_child(t, p, n, same_parent_index(t, n, index)))
        s4 == Bind(s3, LAMBDA t : save(_set_dirty(t, n, TRUE), n, TRUE))
    IN  Bind(s4, LAMBDA t :
          IF p # old_parent THEN notify(t, <<old_parent, p>>, TRUE)
                            ELSE notify(t, <<old_parent>>, TRUE))

\* NoteBookTrash.move (959-966) overrides move for the Trash node
node_move(s, n, p, index) ==
  IF IsTrashNode(s, n)
    THEN IF p = Root THEN move(s, n, p, index) ELSE Raise(s, "NoteBookError")
    ELSE move(s, n, p, index)

\* the loaded descendants visited by walk (534-541)
RECURSIVE Walk(_, _)
Walk(s, n) ==
  IF ~s.loaded[n] THEN {}
  ELSE UNION {{c} \cup Walk(s, c) : c \in Range(s.children[n])}

\* a faulty delete: the siblings keep their orders
delete_no_renumber(s, n) ==
  LET path == get_path(s, n)
      par == s.parent[n]
      s1 == IF ~Exists(s.fs, path) \/ s.iofail = "rmtree"
              THEN Fail(s, "rmtree")
              ELSE [s EXCEPT !.fs = RmTree(@, path)]
      s2 == Bind(s1, LAMBDA t : _remove_child(t, par, n))
      s4 == Bind(s2, LAMBDA t :
              _set_dirty([t EXCEPT !.valid = [m \in DOMAIN t.valid |->
                                      IF m = n \/ m \in Walk(t, n)
                                        THEN FALSE ELSE t.valid[m]]],
                         n, FALSE))
  IN  Bind(s4, LAMBDA t : notify(t, <<par>>, TRUE))

\* NoteBookNode.delete (519-544)
delete(s, n) ==
  LET path == get_path(s, n)
      par == s.parent[n]
      s1 == IF ~Exists(s.fs, path) \/ s.iofail = "rmtree"
              THEN Fail(s, "rmtree")
              ELSE [s EXCEPT !.fs = RmTree(@, path)]
      s2 == Bind(s1, LAMBDA t : _remove_child(t, par, n))
      s3 == Bind(s2, LAMBDA t : _set_child_order(t, par))
      s4 == Bind(s3, LAMBDA t :
              _set_dirty([t EXCEPT !.valid = [m \in DOMAIN t.valid |->
                                      IF m = n \/ m \in Walk(t, n)
                                        THEN FALSE ELSE t.valid[m]]],
                         n, FALSE))
  IN  Bind(s4, LAMBDA t : notify(t, <<par>>, TRUE))

\* a faulty override: the Trash node is deleted like any other node
node_delete_any(s, n) == delete(s, n)

\* NoteBookTrash.delete (968-971) overrides delete for the Trash node
node_delete(s, n) ==
  IF IsTrashNode(s, n) THEN Raise(s, "NoteBookError") ELSE delete(s, n)

\* in_trash (563-571)
RECURSIVE in_trash(_, _)
in_trash(s, n) ==
  LET ptr == s.parent[n]
  IN  IF ptr = None THEN FALSE
      ELSE IF ptr = s.trash THEN TRUE
      ELSE in_trash(s, ptr)

\* NoteBookNode.trash (547-559)
node_trash(s, n) ==
  IF in_trash(s, n) THEN node_delete(s, n)
  ELSE node_move(s, n, s.trash, NoIndex)

\* the try block of rename (593-601)
rename_to(s, n, title, path, path2) ==
  IF ~Exists(s.fs, path) \/ s.iofail = "rename" THEN Fail(s, "rename")
  ELSE Bind(save([s EXCEPT !.fs = RenameDir(@, path, path2),
                           !.attr[n].title = title,
                           !.basename[n] = Basename(path2)], n, TRUE),
            LAMBDA t : notify(t, <<n>>, FALSE))

\* NoteBookNode.rename (574-601)
rename(s, n, title) ==
  IF title = s.attr[n].title THEN s
  ELSE IF s.parent[n] = None
    THEN _set_dirty([s EXCEPT !.attr[n].title = title], n, TRUE)
  ELSE IF ~Exists(s.fs, Dirname(get_path(s, n)))
    THEN Raise(s, "AssertionError")
  ELSE rename_to(s, n, title, get_path(s, n),
                 get_valid_unique_filename(s.fs, Dirname(get_path(s, n)),
                                           title))

\* NoteBookNode.create (336-352)
create(s, n) ==
  LET path == get_path(s, n)
  IN  IF Exists(s.fs, path) \/ ~Exists(s.fs, Dirname(path))
         \/ s.iofail = "mkdir"
        THEN Fail(s, "mkdir")
        ELSE LET s1 == [s EXCEPT !.fs = MkDir(@, path),
                                 !.attr[n].created_time = Now,
                                 !.attr[n].modified_time = Now]
             IN  Bind(write_meta_data(s1, n),
                      LAMBDA t : _set_dirty(t, n, FALSE))

\* create, _add_child, save and notify_change on the node object just
\* constructed (612-616, 625-629); the call returns the node
AddNew(s, n) ==
  LET node == s.ret
      s2 == create(s, node)
      s3 == Bind(s2, LAMBDA t : _add_child(t, n, node, NoIndex))
      s4 == Bind(s3, LAMBDA t : save(t, node, TRUE))
  IN  Bind(s4, LAMBDA t : [notify(t, <<n>>, TRUE) EXCEPT !.ret = node])

\* new_page (606-616) and new_dir (619-629): they differ in the class, that
\* is the content type, of the node they construct
new_child(s, n, title, content_type) ==
  IF ~Exists(s.fs, get_path(s, n)) THEN Raise(s, "AssertionError")
  ELSE AddNew(NewNode(s, n,
                      get_valid_unique_filename(s.fs, get_path(s, n), title),
                      title, content_type), n)

new_page(s, n, title) == new_child(s, n, title, CONTENT_TYPE_PAGE)
new_dir(s, n, title) == new_child(s, n, title, CONTENT_TYPE_DIR)

\* ------------------------------------------------------------- NoteBook
\* is_trash_dir (1148-1150)
is_trash_dir(s, child) ==
  get_path(s, child) = get_trash_dir(get_path(s, Root))

\* if no trash folder, create it (1137-1141), on the Trash object just
\* constructed
CreateTrash(s) ==
  Bind(create([s EXCEPT !.trash = s.ret], s.ret),
       LAMBDA t : _add_child(t, Root, t.trash, NoIndex))

\* _init_trash (1128-1143); on an unloaded notebook the loop iterates None
_init_trash(s) ==
  IF ~s.loaded[Root] THEN Raise([s EXCEPT !.trash = None], "TypeError")
  ELSE
    LET kids == s.children[Root]
        hits == {i \in 1..Len(kids) : is_trash_dir(s, kids[i])}
    IN  IF hits # {}
          THEN [s EXCEPT !.trash = kids[CHOOSE i \in hits :
                                          \A j \in hits : i <= j]]
          ELSE CreateTrash(NewTrash(s))

\* NoteBook.get_children (1119-1125)
notebook_get_children(s) ==
  IF ~s.loaded[Root]
    THEN Bind(_get_children(s, Root), LAMBDA t : _init_trash(t))
    ELSE s

\* get_children dispatched on the class of the node
get_children(s, n) ==
  IF n = Root THEN notebook_get_children(s) ELSE node_get_children(s, n)

\* write_preferences (1176-1187)
write_preferences(s) ==
  [s EXCEPT !.prefFile = s.pref, !.prefWritten = TRUE]

\* node.save() over a sequence of nodes; an exception ends the loop
RECURSIVE SaveAll(_, _, _)
SaveAll(s, q, force) ==
  IF q = <<>> \/ s.exc # "none" THEN s
  ELSE SaveAll(save(s, Head(q), force), Tail(q), force)

\* NoteBook.save (1096-1112); the dirty set is iterated in one of two orders
notebook_save(s, force) ==
  LET s1 == IF force \/ Root \in s.dirty
              THEN Bind(write_meta_data(s, Root),
                        LAMBDA t : write_preferences(t))
              ELSE s
      s2 == Bind(s1, LAMBDA t : _set_dirty(t, Root, FALSE))
      s3 == Bind(s2, LAMBDA t :
              IF force
                THEN Bind(notebook_get_children(t),
                          LAMBDA u : SaveAll(u, u.children[Root], TRUE))
                ELSE LET q == SetToSeq(t.dirty)
                     IN  SaveAll(t, IF t.lsrev THEN Reverse(q) ELSE q, FALSE))
  IN  Bind(s3, LAMBDA t : [t EXCEPT !.dirty = {}])

\* child.delete() over a sequence of nodes
RECURSIVE DeleteAll(_, _)
DeleteAll(s, q) ==
  IF q = <<>> \/ s.exc # "none" THEN s
  ELSE DeleteAll(node_delete(s, Head(q)), Tail(q))

\* empty_trash (1153-1160)
empty_trash(s) ==
  LET s1 == IF s.trash = None THEN _init_trash(s) ELSE s
      s2 == Bind(s1, LAMBDA t : get_children(t, t.trash))
  IN  Bind(s2, LAMBDA t : DeleteAll(t, Reverse(t.children[t.trash])))

\* --------------------------------------------------------------- actions
NOTEBOOK_META_DIR == <<"_", "_", "N", "O", "T", "E", "B", "O", "O", "K", "_", "_">>
DEFAULT_FONT == "Sans 10"

\* NoteBook.__init__ (998-1039): the notebook object alone, nothing loaded
RootAttr ==
  [clear_attr(<<>>, CONTENT_TYPE_DIR) EXCEPT !.title = RootDir, !.order = 0]

\* NoteBookPreferences.__init__ (976-979)
NoteBookPreferences ==
  [version |-> NOTEBOOK_FORMAT_VERSION, default_font |-> DEFAULT_FONT]

\* how a call ended: recorded by every action; the node the call was made
\* on is kept for the calls that returned
Outcome(r, op, n) ==
  [op |-> op, node |-> IF r.exc = "none" THEN n ELSE None,
   exc |-> r.exc, failed |-> r.failed, ret |-> r.ret,
   written |-> r.written, prefWritten |-> r.prefWritten]

Commit(r, op, n) ==
  /\ steps < MaxOps
  /\ steps' = steps + 1
  /\ Len(r.parent) <= MaxNodes
  /\ Cardinality(DOMAIN r.fs) <= MaxDirs
  /\ fs' = r.fs
  /\ prefFile' = r.prefFile
  /\ parent' = r.parent
  /\ basename' = r.basename
  /\ loaded' = r.loaded
  /\ children' = r.children
  /\ valid' = r.valid
  /\ attr' = r.attr
  /\ dirty' = r.dirty
  /\ trash' = r.trash
  /\ pref' = r.pref
  /\ last' = Outcome(r, op, n)

\* NoteBook.read_preferences (1190-1202)
read_preferences(s) ==
  LET s1 == [s EXCEPT !.pref = s.prefFile]
  IN  IF s1.pref.version > NOTEBOOK_FORMAT_VERSION
        THEN Raise(s1, "NoteBookVersionError") ELSE s1

\* NoteBook.load (1079-1093) on a notebook object constructed for rootdir
load(s) ==
  LET sidecar == s.fs[<<RootDir>>]
      s1 == IF ~sidecar.has \/ sidecar = CorruptSidecar
              THEN Raise(s, "NoteBookError")
              ELSE [s EXCEPT !.attr[Root] = Update(@, MetaRead(sidecar))]
      s2 == Bind(s1, LAMBDA t : read_preferences(t))
  IN  Bind(s2, LAMBDA t : notify(t, <<Root>>, TRUE))

\* NoteBook(rootdir) (998-1039) over the disk (f, pf): one object, unloaded
NoteBook(f, pf) ==
  [fs |-> f, prefFile |-> pf, parent |-> <<None>>,
   basename |-> << <<RootDir>> >>, loaded |-> <<FALSE>>,
   children |-> << <<>> >>, valid |-> <<TRUE>>, attr |-> <<RootAttr>>,
   dirty |-> {}, trash |-> None, pref |-> NoteBookPreferences,
   exc |-> "none", failed |-> "none", ret |-> None, written |-> {},
   prefWritten |-> FALSE, notified |-> <<>>, lsrev |-> FALSE,
   iofail |-> "none"]

\* NoteBook(rootdir).create() (1065-1071) on an empty disk: the root
\* directory with its sidecar, the preference directory and file
CreatedDisk ==
  LET rootattr == [RootAttr EXCEPT !.created_time = Now, !.modified_time = Now]
  IN  [p \in {<<RootDir>>, <<RootDir, NOTEBOOK_META_DIR>>} |->
         IF p = <<RootDir>> THEN [has |-> TRUE, attr |-> rootattr]
         ELSE NoSidecar]

\* the disk an earlier session leaves that only listed the notebook: the
\* Trash directory exists, its sidecar as create() wrote it
ListedDisk ==
  get_children(load(NoteBook(CreatedDisk, NoteBookPreferences)), Root).fs

\* the notebooks a session is started on
InitDisks == {CreatedDisk, ListedDisk}

\* the variables take the state the constructor and load() left
Started(r) ==
  /\ fs = r.fs
  /\ prefFile = r.prefFile
  /\ parent = r.parent
  /\ basename = r.basename
  /\ loaded = r.loaded
  /\ children = r.children
  /\ valid = r.valid
  /\ attr = r.attr
  /\ dirty = r.dirty
  /\ trash = r.trash
  /\ pref = r.pref
  /\ last = Outcome(r, "load", Root)
  /\ steps = 0

\* a session starts with NoteBook(rootdir) followed by load()
Init ==
  \E d \in InitDisks : Started(load(NoteBook(d, NoteBookPreferences)))

\* the application is closed and the notebook opened again
Reopen == Commit(load(NoteBook(fs, prefFile)), "load", Root)

\* the handles the application holds: the live node objects
Live == {n \in Nodes : valid[n]}

GetChildren ==
  \E n \in Live, lsrev \in BOOLEAN :
    Commit(get_children(Cur(lsrev, "none"), n), "get_children", n)

NewPage ==
  \E n \in Live, lsrev \in BOOLEAN :
    Commit(new_page(Cur(lsrev, "none"), n, DEFAULT_PAGE_NAME), "new_page", n)

NewDir ==
  \E n \in Live, lsrev \in BOOLEAN :
    Commit(new_dir(Cur(lsrev, "none"), n, DEFAULT_DIR_NAME), "new_dir", n)

Move ==
  \E n \in Live \ {Root}, p \in Live, index \in {NoIndex} \cup 0..MaxIndex :
    Commit(node_move(Cur(FALSE, "none"), n, p, index), "move", n)

\* move while the filesystem refuses to rename directories
MoveFails ==
  \E n \in Live \ {Root}, p \in Live :
    Commit(node_move(Cur(FALSE, "rename"), n, p, NoIndex), "move", n)

Delete ==
  \E n \in Live \ {Root} :
    Commit(node_delete(Cur(FALSE, "none"), n), "delete", n)

Trash ==
  \E n \in Live \ {Root} :
    Commit(node_trash(Cur(FALSE, "none"), n), "trash", n)

EmptyTrash ==
  Commit(empty_trash(Cur(FALSE, "none")), "empty_trash", Root)

Rename ==
  \E n \in Live, title \in Titles, iofail \in {"none", "rename", "write"} :
    Commit(rename(Cur(FALSE, iofail), n, title), "rename", n)

Save ==
  \E lsrev \in BOOLEAN :
    Commit(notebook_save(Cur(lsrev, "none"), FALSE), "save", Root)

SaveForce ==
  \E lsrev \in BOOLEAN :
    Commit(notebook_save(Cur(lsrev, "none"), TRUE), "save_force", Root)

\* the attribute values the application hands to set_attr: a registered
\* boolean attribute and a key the schema does not know
AttrInputs == {<<"expanded", TRUE>>, <<"icon", "x">>}

SetAttr ==
  \E n \in Live, a \in AttrInputs :
    Commit(set_attr(Cur(FALSE, "none"), n, a[1], a[2]), "set_attr", n)

DelAttr ==
  \E n \in Live, a \in AttrInputs :
    Commit(del_attr(Cur(FALSE, "none"), n, a[1]), "del_attr", n)

SetAttrTimestamp ==
  \E n \in Live, timestamp \in {None, Now + 1} :
    Commit(set_attr_timestamp(Cur(FALSE, "none"), n, "modified_time",
                              timestamp),
           "set_attr_timestamp", n)

SetInfoSort ==
  \E n \in Live :
    Commit(set_info_sort(Cur(FALSE, "none"), n, INFO_SORT_TITLE, 1),
           "set_info_sort", n)

\* the operations on the tree
Next ==
  \/ Reopen
  \/ GetChildren
  \/ NewPage
  \/ NewDir
  \/ Move
  \/ MoveFails
  \/ Delete
  \/ Trash
  \/ EmptyTrash

Spec == Init /\ [][Next]_vars

\* changing attributes and saving
NextSave ==
  \/ GetChildren
  \/ NewPage
  \/ Delete
  \/ SetAttr
  \/ DelAttr
  \/ SetAttrTimestamp
  \/ SetInfoSort
  \/ Save
  \/ SaveForce

SpecSave == Init /\ [][NextSave]_vars

\* renaming
NextRename ==
  \/ GetChildren
  \/ NewPage
  \/ NewDir
  \/ Rename

SpecRename == Init /\ [][NextRename]_vars

\* the disk an earlier session leaves that made two folders with one page
\* each: a/b and b/b next to the Trash
FoldersDisk ==
  LET s0 == load(NoteBook(CreatedDisk, NoteBookPreferences))
      s1 == Bind(new_dir(s0, Root, <<"a">>),
                 LAMBDA t : new_page(t, t.ret, <<"B">>))
      s2 == Bind(s1, LAMBDA t : new_dir(t, Root, <<"B">>))
      s3 == Bind(s2, LAMBDA t : new_page(t, t.ret, <<"B">>))
  IN  s3.fs

\* the child of the root titled "a"
Folder(s) == CHOOSE n \in Range(s.children[Root]) : s.attr[n].title = <<"a">>

\* a session on that disk that listed the root and folder a and then deleted
\* folder a: the application still holds the handles of a and of its page
DeletedSession ==
  LET s0 == load(NoteBook(FoldersDisk, NoteBookPreferences))
      s1 == Bind(get_children(s0, Root),
                 LAMBDA t : get_children(t, Folder(t)))
  IN  Bind(s1, LAMBDA t : node_delete(t, Folder(t)))

\* the variables take the state a call left
Resumed(r, op, n) ==
  /\ fs = r.fs
  /\ prefFile = r.prefFile
  /\ parent = r.parent
  /\ basename = r.basename
  /\ loaded = r.loaded
  /\ children = r.children
  /\ valid = r.valid
  /\ attr = r.attr
  /\ dirty = r.dirty
  /\ trash = r.trash
  /\ pref = r.pref
  /\ last = Outcome(r, op, n)
  /\ steps = 0

InitDeleted == Resumed(DeletedSession, "delete", Root)

\* nb.load() on the notebook object of the session
Load == Commit(load(Cur(FALSE, "none")), "load", Root)

\* the operations on any handle the application holds, deleted or not
RenameHandle ==
  \E n \in Nodes, title \in Titles :
    Commit(rename(Cur(FALSE, "none"), n, title), "rename", n)

MoveHandle ==
  \E n \in Nodes \ {Root}, p \in Nodes, index \in {NoIndex, 0} :
    Commit(node_move(Cur(FALSE, "none"), n, p, index), "move", n)

TrashHandle ==
  \E n \in Nodes \ {Root} :
    Commit(node_trash(Cur(FALSE, "none"), n), "trash", n)

SetAttrHandle ==
  \E n \in Nodes, a \in AttrInputs :
    Commit(set_attr(Cur(FALSE, "none"), n, a[1], a[2]), "set_attr", n)

SetAttrTimestampHandle ==
  \E n \in Nodes, timestamp \in {None, Now + 1} :
    Commit(set_attr_timestamp(Cur(FALSE, "none"), n, "modified_time",
                              timestamp),
           "set_attr_timestamp", n)

SetInfoSortHandle ==
  \E n \in Nodes :
    Commit(set_info_sort(Cur(FALSE, "none"), n, INFO_SORT_TITLE, 1),
           "set_info_sort", n)

\* a session that goes on using the handles of deleted nodes
NextDeleted ==
  \/ Load
  \/ RenameHandle
  \/ MoveHandle
  \/ TrashHandle
  \/ Save
  \/ SaveForce
  \/ SetAttrHandle
  \/ SetAttrTimestampHandle
  \/ SetInfoSortHandle

SpecDeleted == InitDeleted /\ [][NextDeleted]_vars

\* a preference file written by a newer release of the program
NewerPreferences ==
  [version |-> NOTEBOOK_FORMAT_VERSION + 1, default_font |-> "Serif 12"]

PrefFiles == {NoteBookPreferences, NewerPreferences}

\* the sidecar of a page as write_meta_data leaves it
PageSidecar ==
  [has |-> TRUE,
   attr |-> [clear_attr(<<"a">>, CONTENT_TYPE_PAGE)
               EXCEPT !.order = 0, !.created_time = Now, !.modified_time = Now]]

\* a well-formed sidecar without a content type, one with a content type no
\* maker is registered for
UntypedSidecar == [has |-> TRUE, attr |-> [title |-> <<"d">>, order |-> 1]]
UnknownSidecar ==
  [has |-> TRUE,
   attr |-> [title |-> <<"u">>, order |-> 2,
             content_type |-> "application/x-unknown"]]

\* the directories found in a notebook folder: name and sidecar
Entries ==
  {<< <<"a">>, PageSidecar >>, << <<"d">>, UntypedSidecar >>,
   << <<"c">>, CorruptSidecar >>, << <<"u">>, UnknownSidecar >>}

\* the disk f with the entries E in the root directory
WithEntries(f, E) ==
  [p \in DOMAIN f \cup {<<RootDir, e[1]>> : e \in E} |->
     IF p \in DOMAIN f THEN f[p]
     ELSE (CHOOSE e \in E : e[1] = Basename(p))[2]]

\* the notebooks found on disk: as many entries as leave room for the Trash
LoadDisks ==
  {WithEntries(CreatedDisk, E) :
     E \in {X \in SUBSET Entries : Cardinality(X) <= MaxDirs - 3}}

\* NoteBook(rootdir) has been constructed, nothing is loaded
InitLoad ==
  \E d \in LoadDisks, pf \in PrefFiles :
    Resumed(NoteBook(d, pf), "NoteBook", Root)

\* opening and listing notebooks found on disk
NextLoad ==
  \/ Load
  \/ GetChildren
  \/ NewPage
  \/ SetAttr
  \/ SaveForce

SpecLoad == InitLoad /\ [][NextLoad]_vars

\* the names a directory already holds, and the names and titles asked for
Notes == <<"n", "o", "t", "e", "s">>
ExistingNames == {Notes, Numbered(Notes, 2), Numbered(Notes, 3)}
FileNames == {Notes, <<"b">>}
NameTitles == {<<"N", "o", "t", "e", "s">>, <<"B">>}

\* the created notebook with plain directories of the names E in its root
WithNames(E) ==
  [p \in DOMAIN CreatedDisk \cup {<<RootDir, e>> : e \in E} |->
     IF p \in DOMAIN CreatedDisk THEN CreatedDisk[p] ELSE NoSidecar]

InitUnique ==
  \E E \in SUBSET ExistingNames :
    Resumed(NoteBook(WithNames(E), NoteBookPreferences), "NoteBook", Root)

\* a caller asks for a free name and creates the directory of that name
TakeName(op, path) ==
  /\ steps < MaxOps
  /\ steps' = steps + 1
  /\ fs' = MkDir(fs, path)
  /\ last' = [op |-> op, node |-> Root, exc |-> "none", failed |-> "none",
              ret |-> path, written |-> {}, prefWritten |-> FALSE]
  /\ UNCHANGED <<prefFile, parent, basename, loaded, children, valid, attr,
                 dirty, trash, pref>>

UniqueFilename ==
  \E filename \in FileNames :
    TakeName("get_unique_filename",
             get_unique_filename(fs, <<RootDir>>, filename))

ValidUniqueFilename ==
  \E title \in NameTitles :
    TakeName("get_valid_unique_filename",
             get_valid_unique_filename(fs, <<RootDir>>, title))

UniqueFilenameList ==
  \E filename \in FileNames :
    TakeName("get_unique_filename_list",
             <<RootDir, get_unique_filename_list(ListDir(fs, <<RootDir>>),
                                                 filename)>>)

\* choosing free names in a directory
NextUnique ==
  \/ UniqueFilename
  \/ ValidUniqueFilename
  \/ UniqueFilenameList

SpecUnique == InitUnique /\ [][NextUnique]_vars

\* the characters of the titles handed to get_valid_filename, and the
\* titles of up to MaxLen characters
TitleChars == {"_", " ", ".", "a", "B", "/", "?"}
TitlesUpTo == UNION {[1..k -> TitleChars] : k \in 0..MaxLen}

\* get_valid_filename(title); the name returned is kept in last.ret
ValidFilename ==
  \E title \in TitlesUpTo :
    /\ steps < MaxOps
    /\ steps' = steps + 1
    /\ last' = [op |-> "get_valid_filename", node |-> Root, exc |-> "none",
                failed |-> "none", ret |-> get_valid_filename(title),
                written |-> {}, prefWritten |-> FALSE]
    /\ UNCHANGED <<fs, prefFile, parent, basename, loaded, children, valid,
                   attr, dirty, trash, pref>>

InitValid ==
  Resumed(NoteBook(CreatedDisk, NoteBookPreferences), "NoteBook", Root)

\* turning titles into file names
SpecValid == InitValid /\ [][ValidFilename]_vars

\* the disks an earlier session leaves that listed the notebook, with and
\* without making a page, and saved it: every sidecar holds the order of
\* its node
SavedDisk ==
  notebook_save(
    get_children(load(NoteBook(CreatedDisk, NoteBookPreferences)), Root),
    FALSE).fs

SavedPageDisk ==
  notebook_save(
    new_page(get_children(load(NoteBook(CreatedDisk, NoteBookPreferences)),
                          Root),
             Root, DEFAULT_PAGE_NAME),
    FALSE).fs

OpenDisks == {SavedDisk, SavedPageDisk}

\* NoteBook(rootdir) has been constructed on a saved notebook
InitOpen ==
  \E d \in OpenDisks : Resumed(NoteBook(d, NoteBookPreferences), "NoteBook", Root)

\* os.listdir raises OSError (646-648): the folder cannot be read
GetChildrenFails ==
  \E n \in Live :
    Commit(get_children(Cur(FALSE, "listdir"), n), "get_children", n)

\* opening a saved notebook
NextOpen ==
  \/ Load
  \/ GetChildren
  \/ GetChildrenFails
  \/ SetAttr
  \/ Save

SpecOpen == InitOpen /\ [][NextOpen]_vars

\* g_default_attrs (291-301): the registered attributes and their datatype
NotebookAttrs ==
  [title |-> "unicode", content_type |-> "unicode", order |-> "int",
   created_time |-> "int", modified_time |-> "int", expanded |-> "bool",
   expanded2 |-> "bool", info_sort |-> "int", info_sort_dir |-> "int"]

DigitValue(c) == CHOOSE i \in 0..9 : Digit(i) = c

\* int(text) for a text of decimal digits
RECURSIVE ParseInt(_)
ParseInt(w) ==
  IF Len(w) = 1 THEN DigitValue(w[1])
  ELSE 10 * ParseInt(SubSeq(w, 1, Len(w) - 1)) + DigitValue(w[Len(w)])

\* NoteBookAttr.write (262-268): unicode(int(x)) for bool, unicode(x) else
AttrWrite(datatype, x) ==
  IF datatype = "bool" THEN Str(IF x THEN 1 ELSE 0)
  ELSE IF datatype = "int" THEN Str(x)
  ELSE x

\* NoteBookAttr.read (271-277): bool(int(x)) for bool, datatype(x) else
AttrRead(datatype, w) ==
  IF datatype = "bool" THEN ParseInt(w) # 0
  ELSE IF datatype = "int" THEN ParseInt(w)
  ELSE w

\* the keys NoteBookNodeMetaData.write puts in the file (819-833): the
\* registered ones and the unknown ones with a string value, but never a
\* key called version
WrittenKeys(a) ==
  {k \in DOMAIN a :
     \/ k \in DOMAIN NotebookAttrs
     \/ k # "version" /\ a[k] \in STRING}

\* NoteBookNodeMetaData.write (811-840): the <version> tag and one
\* <attr key=...> tag for each written key, with its text
MetaWrite(a, version) ==
  [version |-> Str(version),
   attrs |-> [k \in WrittenKeys(a) |->
                IF k \in DOMAIN NotebookAttrs
                  THEN AttrWrite(NotebookAttrs[k], a[k]) ELSE a[k]]]

\* NoteBookNodeMetaData.read (843-879) with __meta_end_element (900-922)
MetaParse(file) ==
  LET parsed == [k \in DOMAIN file.attrs \cup {"version"} |->
                   IF k = "version" THEN ParseInt(file.version)
                   ELSE IF k \in DOMAIN NotebookAttrs
                     THEN AttrRead(NotebookAttrs[k], file.attrs[k])
                   ELSE file.attrs[k]]
      a == Update([created_time |-> None, modified_time |-> None], parsed)
  IN  [a EXCEPT !.created_time = IF @ = None THEN Now ELSE @,
                !.modified_time = IF @ = None THEN Now ELSE @]

\* write_meta_data (780-784) with the file kept as the text it holds
write_meta_text(s, n) ==
  [s EXCEPT !.fs[get_path(s, n)] =
              [has |-> TRUE,
               attr |-> MetaWrite(s.attr[n], NOTEBOOK_FORMAT_VERSION)],
            !.written = @ \cup {n}]

\* read_meta_data (786-789) with set_meta_data (792-794)
read_meta_text(s, n) ==
  [s EXCEPT !.attr[n] = Update(@, MetaParse(s.fs[get_path(s, n)].attr))]

\* the attributes the application sets before the sidecar is written
MetaInputs ==
  {<<"title", <<"B">> >>, <<"order", 12>>, <<"modified_time", 10>>,
   <<"expanded", TRUE>>, <<"info_sort_dir", 0>>,
   <<"icon", "x">>, <<"version", "x">>}

\* the loaded notebook, its sidecar written as text
InitMeta ==
  Resumed(write_meta_text(load(NoteBook(CreatedDisk, NoteBookPreferences)),
                          Root),
          "write_meta_data", Root)

SetMetaAttr ==
  \E a \in MetaInputs :
    Commit(set_attr(Cur(FALSE, "none"), Root, a[1], a[2]), "set_attr", Root)

WriteMeta ==
  Commit(write_meta_text(Cur(FALSE, "none"), Root), "write_meta_data", Root)

ReadMeta ==
  Commit(read_meta_text(Cur(FALSE, "none"), Root), "read_meta_data", Root)

\* writing and reading the sidecar of the notebook
NextMeta ==
  \/ SetMetaAttr
  \/ WriteMeta
  \/ ReadMeta

SpecMeta == InitMeta /\ [][NextMeta]_vars

\* ------------------------------------------------------------- properties
\* the node objects as a working state, for the operators that read them
Mem == Cur(FALSE, "none")
Path(n) == get_path(Mem, n)
Kids(n) == children[n]
LastKid(n) == children[n][Len(children[n])]
IsTrash(n) == attr[n].content_type = CONTENT_TYPE_TRASH
Returned(op) == last.op = op /\ last.exc = "none"

\* C1: for every live node whose children are loaded, the child at list
\* position i has order i (0-based)
C1_OrdersMatchPositions ==
  \A n \in Nodes :
    valid[n] /\ loaded[n] =>
      \A i \in 1..Len(Kids(n)) : attr[Kids(n)[i]].order = i - 1

\* C2: no loaded children list holds two nodes for the same directory
C2_OneNodePerDirectory ==
  \A n \in Nodes :
    valid[n] /\ loaded[n] =>
      \A i, j \in 1..Len(Kids(n)) : i < j => Path(Kids(n)[i]) # Path(Kids(n)[j])

\* C6: whenever the root's children are loaded, the root has exactly one
\* Trash child and get_trash() returns it
C6_LoadedRootHasItsTrash ==
  loaded[Root] =>
    /\ Cardinality({i \in 1..Len(Kids(Root)) : IsTrash(Kids(Root)[i])}) = 1
    /\ trash # None
    /\ trash \in Range(Kids(Root))
    /\ IsTrash(trash)

\* C7: the Trash node is the last element of the root's loaded children
C7_TrashIsLast ==
  loaded[Root] =>
    \A i \in 1..Len(Kids(Root)) :
      IsTrash(Kids(Root)[i]) => i = Len(Kids(Root))

\* C8: when the Trash node is the last child of the root, new_page and
\* new_dir on the root put the new node right before it, Trash stays last
\* and both carry their list position as order
TrashLast == loaded[Root] /\ Kids(Root) # <<>> /\ IsTrash(LastKid(Root))
C8_NewChildGoesBeforeTrash ==
  [][(/\ TrashLast
      /\ last'.op \in {"new_page", "new_dir"}
      /\ last'.exc = "none"
      /\ last'.node = Root)
     => LET k == Len(Kids(Root))
        IN  /\ children'[Root] =
                 SubSeq(Kids(Root), 1, k - 1) \o <<last'.ret, LastKid(Root)>>
            /\ attr'[last'.ret].order = k - 1
            /\ attr'[LastKid(Root)].order = k]_vars

\* C10: when the directory rename inside move fails, move raises and no
\* parent link, children list, order, basename or dirty flag has changed and
\* no children list has been loaded
C10_FailedMoveChangesNothing ==
  [][(last'.op = "move" /\ last'.failed = "rename")
     => /\ last'.exc = "NoteBookError"
        /\ UNCHANGED <<fs, parent, basename, loaded, children, valid, attr,
                       dirty, trash>>]_vars

C10_Witness ==
  /\ last.op = "move"
  /\ last.failed = "rename"
  /\ \E n, p \in Nodes : n # p /\ valid[n] /\ valid[p] /\ ~loaded[p]
                         /\ n # Root /\ parent[n] # p

\* the loaded tree: the nodes reached from the notebook through loaded
\* children lists
RECURSIVE Below(_)
Below(n) ==
  IF ~loaded[n] THEN {} ELSE UNION {{c} \cup Below(c) : c \in Range(Kids(n))}
LoadedLive == {n \in {Root} \cup Below(Root) : valid[n]}

\* C3: after NoteBook.save(force=True) returns, the sidecar of every loaded
\* live node at every depth has been written from its attributes, and the
\* preference file has been written
C3_ForcedSaveWritesEveryLoadedNode ==
  Returned("save_force") =>
    /\ last.prefWritten
    /\ \A n \in LoadedLive :
         n \in last.written /\ Path(n) \in DOMAIN fs /\ fs[Path(n)].has

C5_AttributeMutationMarksDirty ==
  (/\ last.op \in {"set_attr", "set_attr_timestamp", "set_info_sort",
                    "del_attr"}
   /\ last.exc = "none")
  => last.node \in dirty

\* C9: when rename raises a rename error, the title, basename, path and
\* dirty flag of every node are what they were before the call
C9_FailedRenameChangesNothing ==
  [][(last'.op = "rename" /\ last'.exc = "NoteBookError")
     => /\ UNCHANGED <<parent, basename, dirty>>
        /\ \A n \in Nodes : attr'[n].title = attr[n].title]_vars

\* a call that was rejected: it raised and left disk and memory as they are
Rejected(r) ==
  /\ r.exc # "none"
  /\ r.fs = fs /\ r.prefFile = prefFile
  /\ r.parent = parent /\ r.basename = basename
  /\ r.loaded = loaded /\ r.children = children
  /\ r.valid = valid /\ r.attr = attr
  /\ r.dirty = dirty /\ r.trash = trash

\* C11: delete and trash() on the Trash node, a move of the Trash node to a
\* parent other than the root, and a move of a node onto itself raise and
\* change neither the filesystem, nor the tree, nor the dirty set
C11_IllegalOperationsAreRejected ==
  \A n \in Live :
    /\ \A index \in {NoIndex} \cup 0..MaxIndex :
         Rejected(node_move(Mem, n, n, index))
    /\ IsTrash(n) =>
         /\ Rejected(node_delete(Mem, n))
         /\ Rejected(node_trash(Mem, n))
         /\ \A p \in Live \ {Root}, index \in {NoIndex} \cup 0..MaxIndex :
              Rejected(node_move(Mem, n, p, index))

C11_Witness ==
  /\ last.op \in {"delete", "trash"}
  /\ last.exc = "NoteBookError"
  /\ last.failed = "none"
  /\ \E n \in Live : IsTrash(n) /\ parent[n] = Root

\* C12: after a delete that returns, the directory subtree of the node is
\* gone, the node is not in its former parent's children, the remaining
\* siblings have contiguous orders, and the node and every loaded descendant
\* are invalid
C12_DeleteRemovesTheSubtree ==
  [][(last'.op = "delete" /\ last'.exc = "none")
     => LET n == last'.node
            par == parent[n]
        IN  /\ \A q \in DOMAIN fs' : ~IsPrefix(Path(n), q)
            /\ n \notin Range(children'[par])
            /\ \A i \in 1..Len(children'[par]) :
                 attr'[children'[par][i]].order = i - 1
            /\ \A m \in {n} \cup Walk(Mem, n) : ~valid'[m]]_vars

C12_Witness ==
  /\ Returned("delete")
  /\ loaded[last.node]
  /\ children[last.node] # <<>>
  /\ children[parent[last.node]] # <<>>

\* C13: set_attr, set_attr_timestamp and set_info_sort on a deleted node or
\* on a loaded descendant of a deleted node raise or change neither the
\* attributes nor the dirty set
C13_DeletedNodesIgnoreAttributeMutation ==
  [][(last'.op \in {"set_attr", "set_attr_timestamp", "set_info_sort"}
      /\ last'.exc = "none" /\ ~valid[last'.node])
     => (attr' = attr /\ dirty' = dirty)]_vars

\* C14: a node that is invalid stays invalid, and no live node has an
\* invalid node in its children list
C14_DeletedIsTerminal ==
  [][/\ \A n \in Nodes : ~valid[n] => ~valid'[n]
     /\ \A p \in Nodes : valid'[p] =>
          \A c \in Range(children'[p]) : valid'[c]]_vars

\* the nodes below a Trash node, at any depth
RECURSIVE InTrashSubtree(_)
InTrashSubtree(n) ==
  IF parent[n] = None THEN FALSE
  ELSE IsTrash(parent[n]) \/ InTrashSubtree(parent[n])

\* C15: trash() on a live node inside the Trash subtree does what delete()
\* does; on a live node outside it does what move(Trash) does, and when
\* that returns the node is live, a child of the Trash, and its directory
\* lies in the trash directory
C15_TrashDeletesInsideAndMovesOutside ==
  \A n \in Live \ {Root} :
    ~IsTrash(n) =>
      LET r == node_trash(Mem, n)
      IN  IF InTrashSubtree(n) THEN r = node_delete(Mem, n)
          ELSE \E t \in Live :
                 /\ IsTrash(t) /\ parent[t] = Root
                 /\ r = node_move(Mem, n, t, NoIndex)
                 /\ r.exc = "none" =>
                      /\ r.valid[n] /\ r.parent[n] = t
                      /\ n \in Range(r.children[t])
                      /\ Exists(r.fs, get_path(r, n))
                      /\ Dirname(get_path(r, n)) = get_trash_dir(<<RootDir>>)

\* C16: empty_trash() returns without error; afterwards the Trash is live, a
\* child of the root, and has no children, and every node that was a child
\* of the Trash is invalid and its directory is gone
C16_EmptyTrashEmptiesTheTrash ==
  [][last'.op = "empty_trash"
     => /\ last'.exc = "none"
        /\ trash' # None
        /\ valid'[trash'] /\ parent'[trash'] = Root
        /\ trash' \in Range(children'[Root])
        /\ children'[trash'] = <<>>
        /\ \A m \in DOMAIN parent' :
             parent'[m] = trash' =>
               ~valid'[m] /\ ~Exists(fs', get_path(Mem', m))]_vars

\* the position of the first x in q
IndexOf(q, x) ==
  CHOOSE i \in 1..Len(q) : q[i] = x /\ \A j \in 1..(i - 1) : q[j] # x

\* the children list old with n placed immediately before the sibling that
\* holds index i, at the end when no sibling holds it
MovedWithin(old, n, i) ==
  LET others == ListRemove(old, n)
      j == IF i >= Len(old) THEN Len(others)
           ELSE IF old[i + 1] = n THEN i
           ELSE IndexOf(others, old[i + 1]) - 1
  IN  ListInsert(others, j, n)

\* C17: a move within the node's own parent to index i keeps the other
\* children in their relative order, places the node immediately before the
\* sibling that held index i, and leaves the orders 0, 1, 2, ...
C17_MoveWithinParentPlacesBeforeIndex ==
  \A n \in Live \ {Root}, i \in 0..MaxIndex :
    LET p == parent[n]
        r == node_move(Mem, n, p, i)
    IN  (valid[p] /\ loaded[p] /\ n \in Range(children[p]) /\ r.exc = "none")
          => /\ r.children[p] = MovedWithin(children[p], n, i)
             /\ \A x \in 1..Len(r.children[p]) :
                  r.attr[r.children[p][x]].order = x - 1

Min(a, b) == IF a < b THEN a ELSE b

\* what a move of n from its parent to another parent p has to leave
MovedTo(r, n, p, index) ==
  LET old == parent[n]
      q == r.children[p]
  IN  /\ n \notin Range(r.children[old])
      /\ \A x \in 1..Len(r.children[old]) :
           r.attr[r.children[old][x]].order = x - 1
      /\ r.parent[n] = p
      /\ n \in Range(q)
      /\ IF index # NoIndex
           THEN IndexOf(q, n) - 1 = Min(index, Len(q) - 1)
           ELSE \A x \in 1..Len(q) :
                  IsTrashNode(r, q[x]) <=> x > IndexOf(q, n)
      /\ Exists(r.fs, get_path(r, n))
      /\ Dirname(get_path(r, n)) = get_path(r, p)
      /\ ~Exists(r.fs, Path(n))
      /\ n \notin r.dirty
      /\ n \in r.written

\* C18: a move to another parent that returns takes the node out of the old
\* parent's children, whose orders stay contiguous, puts it in the new
\* parent's children at the given index, or at the end but before the Trash
\* when no index is given, moves its directory under the new parent's, and
\* writes its sidecar so that it is not dirty
C18_MoveToOtherParent ==
  \A n \in Live \ {Root}, p \in Live, index \in {NoIndex} \cup 0..MaxIndex :
    LET r == node_move(Mem, n, p, index)
    IN  (p # parent[n] /\ r.exc = "none") => MovedTo(r, n, p, index)

\* C19: a load that fails with the unsupported-version error leaves the
\* preferences (version, default font), the attributes and the basename of
\* the notebook object as they were before the call
C19_FailedLoadChangesNothing ==
  [][(last'.op = "load" /\ last'.exc = "NoteBookVersionError")
     => (pref' = pref /\ attr' = attr /\ basename' = basename)]_vars

\* the entries of a directory that are nodes: the sidecar parses and its
\* content type, folder when absent, has a maker
NodeEntries(f, path) ==
  {q \in DOMAIN f :
     /\ Len(q) = Len(path) + 1 /\ Dirname(q) = path
     /\ f[q].has /\ f[q] # CorruptSidecar
     /\ \/ "content_type" \notin DOMAIN f[q].attr
        \/ f[q].attr.content_type \in
             {CONTENT_TYPE_DIR, CONTENT_TYPE_PAGE, CONTENT_TYPE_TRASH}}

\* C20: listing the children of a node returns without an exception and
\* yields exactly one node for each entry whose sidecar parses and has a
\* registered or no content type; all other entries are skipped
C20_ChildrenAreTheNodeEntries ==
  [][last'.op = "get_children"
     => /\ last'.exc = "none"
        /\ LET n == last'.node
           IN  ~loaded[n] =>
                 /\ Len(children'[n]) =
                      Cardinality(NodeEntries(fs', Path(n)))
                 /\ {get_path(Mem', c) : c \in Range(children'[n])} =
                      NodeEntries(fs', Path(n))]_vars

C20_Witness ==
  /\ Returned("get_children")
  /\ children[last.node] # <<>>
  /\ \E q \in DOMAIN fs :
       Dirname(q) = Path(last.node) /\ fs[q] = CorruptSidecar

\* C21: the computed path of every live node of the loaded tree is a
\* directory that exists
C21_LivePathsExist ==
  \A n \in LoadedLive : Exists(fs, Path(n))

Occurrences(q, x) == Cardinality({i \in 1..Len(q) : q[i] = x})

\* following the parent links from n reaches the notebook in fuel steps
RECURSIVE ReachesRoot(_, _)
ReachesRoot(n, fuel) ==
  IF n = Root THEN TRUE
  ELSE IF fuel = 0 \/ parent[n] = None THEN FALSE
  ELSE ReachesRoot(parent[n], fuel - 1)

\* C22: the loaded nodes form a tree: every live node of the loaded tree is
\* exactly once in the children list of its parent and in no other list,
\* the parent links of every live node lead to the root, and a move of a
\* node under one of its descendants raises and changes no link
C22_LoadedNodesFormATree ==
  /\ \A n \in LoadedLive \ {Root} :
       /\ Occurrences(children[parent[n]], n) = 1
       /\ \A m \in Nodes \ {parent[n]} : n \notin Range(children[m])
  /\ \A n \in Live : ReachesRoot(n, Len(parent))
  /\ \A n \in LoadedLive \ {Root} :
       \A p \in Walk(Mem, n) :
         LET r == node_move(Mem, n, p, NoIndex)
         IN  r.exc # "none" /\ r.parent = parent /\ r.children = children

C22_Witness ==
  /\ last.op = "move"
  /\ last.exc = "NoteBookError"
  /\ \E n \in LoadedLive \ {Root} : \E p \in Walk(Mem, n) : valid[p]

\* r is the name the sentence asks for: filename when it is free, otherwise
\* filename + " " + N for the smallest N >= 2 that is free
FreeName(names, filename, r) ==
  /\ r \notin names
  /\ filename \notin names => r = filename
  /\ filename \in names =>
       \E N \in 2..(Cardinality(names) + 2) :
         /\ r = Numbered(filename, N)
         /\ \A j \in 2..(N - 1) : Numbered(filename, j) \in names

\* C24: get_unique_filename and get_unique_filename_list return the name
\* itself when it is free and otherwise the name with the smallest free
\* number from 2 on; the result is never an existing name
C24_UniqueNameIsSmallestFree ==
  LET names == ListDir(fs, <<RootDir>>)
  IN  /\ \A filename \in FileNames :
           /\ FreeName(names, filename,
                       get_unique_filename_list(names, filename))
           /\ Dirname(get_unique_filename(fs, <<RootDir>>, filename))
                = <<RootDir>>
           /\ FreeName(names, filename,
                       Basename(get_unique_filename(fs, <<RootDir>>,
                                                    filename)))
      /\ \A title \in NameTitles :
           FreeName(names, get_valid_filename(title),
                    Basename(get_valid_unique_filename(fs, <<RootDir>>,
                                                       title)))

\* title Notes beside notes, notes 2 and notes 3 has given notes 4
C24_Witness ==
  /\ last.op = "get_valid_unique_filename"
  /\ last.ret = <<RootDir, Numbered(Notes, 4)>>
  /\ ExistingNames \subseteq ListDir(fs, <<RootDir>>)

\* C25: the name get_valid_filename returns is not empty, is lower case,
\* holds no path separator and no blocked character, neither starts nor
\* ends with a space, a tab or a dot, and does not start with two
\* underscores
C25_ValidFilenameIsClean ==
  last.op = "get_valid_filename" =>
    LET w == last.ret
    IN  /\ w # <<>>
        /\ \A i \in 1..Len(w) :
             /\ w[i] = Lower(w[i])
             /\ w[i] \notin REGEX_SLASHES \cup REGEX_BAD_CHARS
        /\ w[1] \notin StripChars
        /\ w[Len(w)] \notin StripChars
        /\ ~(Len(w) >= 2 /\ w[1] = "_" /\ w[2] = "_")

\* C23: writing the attributes of a node and reading the file back gives
\* the value of every registered attribute and the text of every unknown
\* key with a string value, whatever the key is called
C23_SidecarRoundTrip ==
  \A n \in Live :
    LET file == MetaWrite(attr[n], NOTEBOOK_FORMAT_VERSION)
    IN  \A k \in DOMAIN attr[n] :
          (k \in DOMAIN NotebookAttrs \/ attr[n][k] \in STRING) =>
            /\ k \in DOMAIN file.attrs
            /\ MetaParse(file)[k] = attr[n][k]

\* NoteBook.save_needed (1060-1062)
save_needed(s) == s.dirty # {}

\* the notebook directory holds the Trash node
HoldsTrash(f) ==
  LET t == get_trash_dir(<<RootDir>>)
  IN  /\ t \in NodeEntries(f, <<RootDir>>)
      /\ "content_type" \in DOMAIN f[t].attr
      /\ f[t].attr.content_type = CONTENT_TYPE_TRASH

\* the orders stored in the sidecars of the entries of path are 0..n-1
ContiguousOrders(f, path) ==
  LET E == NodeEntries(f, path)
  IN  /\ \A q \in E : "order" \in DOMAIN f[q].attr
      /\ {f[q].attr.order : q \in E} = 0..(Cardinality(E) - 1)

\* C28: listing the children of the notebook right after load, from a
\* directory that holds the Trash and contiguous stored orders, leaves the
\* dirty set empty and save_needed() false
C28_LoadingDirtiesNothing ==
  [][(/\ last.op = "load" /\ last.exc = "none"
      /\ ~loaded[Root] /\ dirty = {}
      /\ HoldsTrash(fs) /\ ContiguousOrders(fs, <<RootDir>>)
      /\ last'.op = "get_children" /\ last'.node = Root
      /\ last'.exc = "none")
     => (dirty' = {} /\ ~save_needed(Mem'))]_vars

\* the order stored in the sidecar of the directory of node c
StoredOrder(f, r, c) == f[get_path(r, c)].attr.order

\* C27: the first get_children() of a node returns the children sorted
\* ascending by stored order and numbered 0..n-1, and marks dirty exactly
\* the children whose order value changed; a later get_children() lists
\* nothing, renumbers nothing and returns the same list
C27_ChildrenSortedAndNumberedOnce ==
  [][(last'.op = "get_children" /\ last'.exc = "none")
     => LET n == last'.node
            q == children'[n]
        IN  IF loaded[n]
              THEN /\ children' = children /\ attr' = attr
                   /\ dirty' = dirty /\ fs' = fs /\ parent' = parent
              ELSE /\ \A i, j \in 1..Len(q) :
                        i < j => StoredOrder(fs', Mem', q[i])
                                   <= StoredOrder(fs', Mem', q[j])
                   /\ \A i \in 1..Len(q) : attr'[q[i]].order = i - 1
                   /\ dirty' \ dirty =
                        {c \in Range(q) :
                           StoredOrder(fs', Mem', c) # attr'[c].order}]_vars

\* C29: when listing the directory fails during the lazy load of the
\* children, the error is raised and the node stays unloaded, so that a
\* later get_children() loads again (and, for the notebook, initialises
\* the Trash)
C29_FailedListingLeavesNodeUnloaded ==
  [][(last'.op = "get_children" /\ last'.failed = "listdir")
     => /\ last'.exc = "NoteBookError"
        /\ loaded' = loaded
        /\ children' = children]_vars

\* the calls that change the filesystem, and the metadata write
FsMutations == {"rename", "rmtree", "mkdir"}
IOFailures == FsMutations \cup {"write"}

\* the tree in memory as the node objects that exist now hold it
Tree(r) ==
  [n \in Nodes |-> <<r.children[n], r.parent[n], r.basename[n], r.valid[n],
                     r.attr[n].title>>]

\* r is the outcome of one operation called in the current state: a
\* failure emits no notification; a failing filesystem mutation comes
\* before any change in memory and any metadata write; a metadata write
\* that fails after the filesystem mutation comes after the change in
\* memory; a completed mutation is notified once
StepsInOrder(r) ==
  /\ r.exc # "none" => r.notified = <<>>
  /\ r.failed \in FsMutations =>
       /\ Tree(r) = Tree(Mem) /\ r.dirty = dirty
       /\ r.fs = fs /\ r.written = {}
  /\ (r.failed = "write" /\ r.fs # fs) =>
       (Tree(r) # Tree(Mem) \/ r.dirty # dirty)
  /\ (r.exc = "none" /\ r.fs # fs) => Len(r.notified) = 1

\* C26: rename, move, delete, new_page and new_dir change the filesystem,
\* then the tree in memory, then write the metadata, then notify; when the
\* filesystem mutation or the metadata write raises, nothing is notified
C26_MutationsAreOrdered ==
  \A io \in {"none"} \cup IOFailures :
    /\ \A n \in Live :
         /\ StepsInOrder(new_page(Cur(FALSE, io), n, DEFAULT_PAGE_NAME))
         /\ StepsInOrder(new_dir(Cur(FALSE, io), n, DEFAULT_DIR_NAME))
    /\ \A n \in Live \ {Root} :
         /\ StepsInOrder(node_delete(Cur(FALSE, io), n))
         /\ \A title \in Titles :
              StepsInOrder(rename(Cur(FALSE, io), n, title))
         /\ \A p \in Live \ {n} :
              StepsInOrder(node_move(Cur(FALSE, io), n, p, NoIndex))

====
